---- MODULE Spec2Model ----
(***************************************************************************)
(* A model of the request-governance layer of figma-dl                     *)
(* (src/src/figma-api.js): RateLimiter, RequestQueue and FigmaDownloader   *)
(* (fetchWithRetry, getImageUrls, downloadImages).                         *)
(*                                                                         *)
(* Concurrency is JavaScript's: one thread, and a running function gives   *)
(* up control only at an `await`.  Every action is one synchronous         *)
(* segment, from one suspension point to the next.  A continuation that    *)
(* awaits a promise which is already settled runs in the same turn of the  *)
(* event loop, before any timer or response is handled: it belongs to the  *)
(* action that settled the promise.                                        *)
(*                                                                         *)
(* The operators that model methods take and return the record S of the    *)
(* objects a segment may touch, so that a call chain (add -> process ->    *)
(* acquire -> the task function -> fetchWithRetry) composes as the code    *)
(* composes it.                                                            *)
(*                                                                         *)
(* Time is the reading of Date.now() in milliseconds.  The timers of the   *)
(* queue and of the rate limiter are timed: a timer set by sleep(ms) at    *)
(* reading t fires at some reading >= t + ms.  The sleeps of               *)
(* fetchWithRetry and getImageUrls record their duration and may end at    *)
(* any later step.  rateLimitInfo (lines 107, 114-124) is written and      *)
(* never read, and is left out.                                            *)
(***************************************************************************)
EXTENDS Integers, Sequences, FiniteSets, TLC

----------------------------------------------------------------------------
(* Program constants (src/src/figma-api.js). *)
MAX_RETRIES == 5
INITIAL_DELAY == 2000
REQUEST_INTERVAL == 1000
MAX_CONCURRENT == 2
BATCH_SIZE == 5
\* the safety margin added to a quota wait (line 38)
WAIT_MARGIN == 100
\* the proactive delay per recent 429, and its cap (line 134)
PROACTIVE_STEP == 2000
PROACTIVE_CAP == 10000
\* the jitter is Math.random() * 1000 (line 160)
JITTER_RANGE == 1000
\* the default scale (line 244)
DEFAULT_SCALE == 2
HTTP_TOO_MANY == 429

(* Bounds of the model. *)
\* RateLimiter's constructor parameters (the defaults are 60000 and 30)
windowMs == 300
maxRequests == 2
\* the reading of Date.now() when the objects are constructed
StartTime == 5000
\* the clock advances in steps of TickMs, for at most Horizon ms, and
\* otherwise to the instant the next timer is due
TickMs == 100
Horizon == 700
\* Spec: the horizon of the clock's steps
DownloadHorizon == 100
\* SpecLimiter: concurrent callers of acquire(), and acquire() calls granted
NumCallers == 3
MaxAcquires == 4
\* the tasks a RequestQueue is handed
MaxTasks == 4
\* Spec: the identifiers requested, and the distinct nodes among them
MaxIds == 6
MaxNodes == 2
\* SpecResolve: the identifiers requested
MaxResolveIds == 12
\* SpecNames: the characters of the identifier requested
MaxIdLen == 4
\* Spec: the 429 responses the servers give in one run
Max429 == 2
\* SpecFetch: the clients calling fetchWithRetry, and the 429 responses
\* the server gives in one run
NumFetchers == 2
MaxThrottles == 7
\* Spec: the seconds a retry-after header names
RetryAfterSecs == 3

VARIABLES
  now,        \* Date.now()
  requests,   \* RateLimiter.requests: the retained timestamps, oldest first
  running,    \* RequestQueue.running
  queue,      \* RequestQueue.queue: the tasks waiting, oldest first
  lastRequestTime, \* RequestQueue.lastRequestTime
  task,       \* each task handed to add(): where it is, and its result
  retryCount, \* FigmaDownloader.retryCount
  call,       \* the activation of fetchWithRetry of each caller
  gi,         \* the activation of getImageUrls
  dl,         \* the activation of downloadImages
  nodeIds,    \* the argument nodeIds
  format,     \* options.format
  files,      \* the file system: the names of the files created
  acquired,   \* history: the acquire() calls that returned, per caller of fetchWithRetry
  served429,  \* history: the 429 responses given so far
  resolveLog, \* history: the fetchWithRetry calls of getImageUrls
  lpc,        \* SpecLimiter: where each caller of acquire() is
  lwake,      \* SpecLimiter: when each sleeping caller's timer is due
  lblocked,   \* SpecLimiter: the oldest retained timestamp the caller last found at quota
  lrounds,    \* SpecLimiter: history of the waits of each caller's acquire() in progress
  grants      \* SpecLimiter: history of the acquire() calls that returned

harnessVars == <<lpc, lwake, lblocked, lrounds, grants>>
inputVars == <<nodeIds, format>>
objectVars == <<requests, running, queue, lastRequestTime, task, retryCount, call,
                gi, dl, files, acquired, served429, resolveLog>>
vars == <<now, requests, running, queue, lastRequestTime, task, retryCount, call,
          gi, dl, nodeIds, format, files, acquired, served429, resolveLog,
          lpc, lwake, lblocked, lrounds, grants>>

Callers == 1..NumCallers
Tasks == 1..MaxTasks
\* the callers of fetchWithRetry: getImageUrls (0) and the download tasks
Resolver == 0
FetchCallers == {Resolver} \cup Tasks
\* no timer is set: a value no reading of the clock takes
NoTime == 0 - 1

Min(a, b) == IF a <= b THEN a ELSE b
Max(a, b) == IF a >= b THEN a ELSE b
RECURSIVE Pow2(_)
Pow2(n) == IF n = 0 THEN 1 ELSE 2 * Pow2(n - 1)

----------------------------------------------------------------------------
(* Identifiers, file names and the resolved-URL map.  A string is the      *)
(* sequence of its characters.                                             *)

ReplaceFirst(s, from, to) ==
  [i \in 1..Len(s) |->
     IF s[i] = from /\ \A j \in 1..(i - 1) : s[j] # from THEN to ELSE s[i]]
\* String.prototype.replace(/x/g, y)
ReplaceAll(s, from, to) == [i \in 1..Len(s) |-> IF s[i] = from THEN to ELSE s[i]]
\* line 184: id.replace(/-/g, ':')
FormatId(id) == ReplaceAll(id, "-", ":")
\* line 263: nodeId.replace(/:/g, '_')
SafeNodeId(nodeId) == ReplaceAll(nodeId, ":", "_")
\* line 264: `${safeNodeId}.${format}`
FileName(nodeId, fmt) == SafeNodeId(nodeId) \o <<".", fmt>>

\* lines 187-190: the batches of the formatted identifiers
NumBatches(ids) == (Len(ids) + BATCH_SIZE - 1) \div BATCH_SIZE
BatchStartOverlapping(i) == (i - 1) * (BATCH_SIZE - 1) + 1
BatchStart(i) == (i - 1) * BATCH_SIZE + 1
Batch(ids, i) == SubSeq(ids, BatchStart(i), Min(Len(ids), BatchStart(i) + BATCH_SIZE - 1))
FormattedIds(ids) == [i \in 1..Len(ids) |-> FormatId(ids[i])]

\* A JavaScript object with string keys that are not array indices: the
\* sequence of its entries in insertion order, every key once.
\* An entry is [key, url]; the url the vendor signs for a node in the
\* response to batch i is Url(node, i), and JavaScript's null is Null.
Null == [node |-> <<>>, batch |-> 0]
Url(node, i) == [node |-> node, batch |-> i]
Keys(m) == {m[i].key : i \in 1..Len(m)}
HasKey(m, k) == k \in Keys(m)
Lookup(m, k) == (CHOOSE i \in 1..Len(m) : m[i].key = k)
\* line 230: { ...allImages, ...data.images }: a key already present keeps
\* its place and takes the new value, a new key is appended
RECURSIVE Spread(_, _)
Spread(m, more) ==
  IF more = <<>> THEN m
  ELSE LET e == Head(more) IN
       Spread(IF HasKey(m, e.key)
              THEN [m EXCEPT ![Lookup(m, e.key)] = e]
              ELSE Append(m, e),
              Tail(more))

----------------------------------------------------------------------------
(* RateLimiter (lines 23-53). *)

\* line 33: this.requests.filter(timestamp => now - timestamp < this.windowMs)
Retained(reqs, t) == SelectSeq(reqs, LAMBDA ts : t - ts < windowMs)

WaitTimeEarly(t, oldest) == windowMs - (t - oldest) - WAIT_MARGIN
\* line 38: windowMs - (now - oldestRequest) + 100
WaitTime(t, oldest) == windowMs - (t - oldest) + WAIT_MARGIN

\* line 35: the quota test
QuotaExhaustedOffByOne(n) == n > maxRequests
QuotaExhausted(n) == n >= maxRequests

\* The synchronous part of acquire() at reading t (lines 31-45): the list
\* after it, whether the call returned, and otherwise the timer it set.
AcquireStep(reqs, t) ==
  LET r == Retained(reqs, t) IN
  IF QuotaExhausted(Len(r))
  THEN [requests |-> r, granted |-> FALSE,
        oldest |-> r[1], wakeAt |-> t + WaitTime(t, r[1])]
  ELSE [requests |-> Append(r, t), granted |-> TRUE,
        oldest |-> NoTime, wakeAt |-> NoTime]

----------------------------------------------------------------------------
(* The clock: it advances by TickMs within the horizon, or to the instant  *)
(* the next pending timer is due.                                          *)
PendingTimers ==
  {lwake[c] : c \in {x \in Callers : lpc[x] = "sleeping"}}
    \cup {task[t].wakeAt : t \in {x \in Tasks : task[x].pc \in {"quota", "interval"}}}
Tick(horizon) ==
  \/ /\ now + TickMs <= StartTime + horizon
     /\ now' = now + TickMs
  \/ \E w \in PendingTimers :
       /\ w > now
       /\ \A v \in PendingTimers : v > now => w <= v
       /\ now' = w

----------------------------------------------------------------------------
(* The records of the model. *)

Err(msg, code) == [msg |-> msg, code |-> code]
NoError == Err("", 0)
\* what a download task resolves with (lines 259, 283-289, 292)
Outcome(nodeId, success, error, fileName) ==
  [nodeId |-> nodeId, success |-> success, error |-> error, fileName |-> fileName]
Pending == Outcome(<<>>, FALSE, Err("pending", 0), <<>>)

\* pc: new, queued, quota (sleeping in acquire), interval (sleeping for the
\* interval), fn (the task function runs), pipeline (the task function
\* awaits the file write), resolved, rejected
NewTask == [pc |-> "new", wakeAt |-> NoTime, kind |-> "opaque",
            nodeId |-> <<>>, imageUrl |-> Null, result |-> Pending]

\* pc: none, proactive (line 136), http (line 139), backoff (line 163);
\* requests and throttled count the HTTP requests issued and the 429s
\* received, status is the status of the last response received;
\* outcome: none, returned, threw, undefined (the loop ran out), with the
\* status of the response returned or the error thrown;
\* wait and prevWait are the last two values of `delay` (lines 150-160) of
\* a call in progress, with the retry-after header they were computed from
NoWait == [delay |-> 0, retryAfter |-> 0]
NewCall == [pc |-> "none", attempt |-> 0, delay |-> 0, requests |-> 0,
            throttled |-> 0, status |-> 0, outcome |-> "none", returned |-> 0,
            error |-> NoError, wait |-> NoWait, prevWait |-> NoWait]

\* pc: idle, fetch, json (line 224), sleep (line 236), returned, threw
\* merged counts the batches merged into allImages (line 230)
NewGi == [pc |-> "idle", i |-> 0, allImages |-> <<>>, delay |-> 0, merged |-> 0,
          error |-> NoError]

\* pc: idle, resolving (line 252), awaiting (line 300), returned, threw;
\* results: [task, outcome], task 0 for an outcome pushed at once
NewDl == [pc |-> "idle", results |-> <<>>, finalResults |-> <<>>, error |-> NoError]

St == [requests |-> requests, running |-> running, queue |-> queue,
       lastRequestTime |-> lastRequestTime, task |-> task, retryCount |-> retryCount,
       call |-> call, gi |-> gi, dl |-> dl, files |-> files,
       acquired |-> acquired, served429 |-> served429, resolveLog |-> resolveLog]

Commit(S) ==
  /\ requests' = S.requests
  /\ running' = S.running
  /\ queue' = S.queue
  /\ lastRequestTime' = S.lastRequestTime
  /\ task' = S.task
  /\ retryCount' = S.retryCount
  /\ call' = S.call
  /\ gi' = S.gi
  /\ dl' = S.dl
  /\ files' = S.files
  /\ acquired' = S.acquired
  /\ served429' = S.served429
  /\ resolveLog' = S.resolveLog

Settled(tk) == tk.pc \in {"resolved", "rejected"}
Ok(status) == status >= 200 /\ status <= 299

----------------------------------------------------------------------------
(* FigmaDownloader.fetchWithRetry (lines 130-177), up to the response. *)

\* line 130: retries = MAX_RETRIES
retries == MAX_RETRIES

ProactiveDelayUncapped(count) == count * PROACTIVE_STEP
\* line 134: Math.min(this.retryCount * 2000, 10000)
ProactiveDelay(count) == Min(count * PROACTIVE_STEP, PROACTIVE_CAP)

BackoffDelayFlat(attempt, retryAfter, jitter) ==
  (IF retryAfter # 0 THEN retryAfter * 1000 ELSE INITIAL_DELAY) + jitter
\* lines 152-160: the wait before the next attempt; retryAfter is the
\* header's number of seconds, 0 when there is no header
BackoffDelay(attempt, retryAfter, jitter) ==
  (IF retryAfter # 0 THEN retryAfter * 1000 ELSE INITIAL_DELAY * Pow2(attempt)) + jitter

\* line 139: fetch(url, options)
IssueFetch(S, c) ==
  [S EXCEPT !.call[c].pc = "http", !.call[c].delay = 0, !.call[c].requests = @ + 1]

\* line 131: the loop test
LoopStopsEarly(attempt) == attempt < retries
LoopGoesOn(attempt) == attempt <= retries

\* lines 132-139: the attempt up to its first suspension
LoopBody(S, c) ==
  IF S.retryCount > 0
  THEN [S EXCEPT !.call[c].pc = "proactive",
                 !.call[c].delay = ProactiveDelay(S.retryCount)]
  ELSE IssueFetch(S, c)

\* line 130: a call of fetchWithRetry; attempt is 0 and retries >= 0, so
\* the first loop test passes
FetchWithRetry(S, c) == LoopBody([S EXCEPT !.call[c] = NewCall], c)

----------------------------------------------------------------------------
(* RequestQueue (lines 56-100). *)

\* lines 57-59: `new RequestQueue(MAX_CONCURRENT, REQUEST_INTERVAL)` (line 105)
concurrency == MAX_CONCURRENT
interval == REQUEST_INTERVAL

\* lines 89-91: this.lastRequestTime = Date.now(); await fn().  The task
\* function of downloadImages (lines 270-272) starts with fetchWithRetry.
StartTask(S, t) ==
  LET S1 == [S EXCEPT !.lastRequestTime = now,
                      !.task[t].pc = "fn",
                      !.task[t].wakeAt = NoTime]
  IN  IF S.task[t].kind = "download" THEN FetchWithRetry(S1, t) ELSE S1

\* lines 84-88: the minimum interval between requests
AfterAcquire(S, t) ==
  LET elapsed == now - S.lastRequestTime IN
  IF elapsed < interval
  THEN [S EXCEPT !.task[t].pc = "interval", !.task[t].wakeAt = now + (interval - elapsed)]
  ELSE StartTask(S, t)

\* line 81 (and line 41 when the quota timer fires): rateLimiter.acquire()
AcquireFor(S, t) ==
  LET a == AcquireStep(S.requests, now)
      S1 == [S EXCEPT !.requests = a.requests]
  IN  IF a.granted
      THEN AfterAcquire([S1 EXCEPT !.acquired[t] = @ + 1, !.task[t].wakeAt = NoTime], t)
      ELSE [S1 EXCEPT !.task[t].pc = "quota", !.task[t].wakeAt = a.wakeAt]

\* line 74: the admission test
AtCapacityOffByOne(n) == n > concurrency
AtCapacity(n) == n >= concurrency

\* lines 73-81: process() up to its first suspension
Process(S) ==
  IF AtCapacity(S.running) \/ S.queue = <<>>
  THEN S
  ELSE AcquireFor([S EXCEPT !.queue = Tail(@), !.running = @ + 1], Head(S.queue))

\* lines 66-71: add(fn)
AddTask(S, t) == Process([S EXCEPT !.queue = Append(@, t), !.task[t].pc = "queued"])

SettleTaskNoProcess(S, t, how, result) ==
  [S EXCEPT !.task[t].pc = how, !.task[t].result = result, !.running = @ - 1]
\* lines 92-98: resolve(result) or reject(error), then running-- and process()
SettleTask(S, t, how, result) ==
  Process([S EXCEPT !.task[t].pc = how, !.task[t].result = result, !.running = @ - 1])

----------------------------------------------------------------------------
(* FigmaDownloader.downloadImages (lines 243-303), after getImageUrls. *)

TasksOf(S) == {S.dl.results[k].task : k \in 1..Len(S.dl.results)} \ {0}

\* lines 300-302: Promise.all(results) rejects with the first rejection and
\* resolves once every task has resolved
PromiseAll(S) ==
  IF S.dl.pc # "awaiting" THEN S
  ELSE IF \E t \in TasksOf(S) : S.task[t].pc = "rejected"
  THEN [S EXCEPT !.dl.pc = "threw", !.dl.error = Err("task rejected", 0)]
  ELSE IF \A t \in TasksOf(S) : S.task[t].pc = "resolved"
  THEN [S EXCEPT !.dl.pc = "returned",
                 !.dl.finalResults =
                    [k \in 1..Len(S.dl.results) |->
                       IF S.dl.results[k].task = 0
                       THEN S.dl.results[k].outcome
                       ELSE S.task[S.dl.results[k].task].result]]
  ELSE S

\* the task function returns (lines 283-289, 292): the queue resolves the
\* task's promise (line 92), which Promise.all awaits
TaskReturn(S, t, outcome) == PromiseAll(SettleTask(S, t, "resolved", outcome))

TaskCatchRethrows(S, t, err) ==
  PromiseAll(SettleTask(S, t, "rejected", Outcome(S.task[t].nodeId, FALSE, err, <<>>)))
\* lines 290-293: catch (error)
TaskCatch(S, t, err) == TaskReturn(S, t, Outcome(S.task[t].nodeId, FALSE, err, <<>>))

\* line 273: the test of the response
TaskRejectsNothing(status) == FALSE
TaskRejectsStatus(status) == ~Ok(status)

\* lines 273-278: after fetchWithRetry returned
TaskAfterFetch(S, t, status) ==
  IF TaskRejectsStatus(status)
  THEN TaskCatch(S, t, Err("HTTP", status))
  ELSE [S EXCEPT !.files = @ \cup {FileName(S.task[t].nodeId, format)},
                 !.task[t].pc = "pipeline"]

\* lines 280-289: after the pipeline
TaskAfterPipeline(S, t) ==
  TaskReturn(S, t, Outcome(S.task[t].nodeId, TRUE, NoError,
                           FileName(S.task[t].nodeId, format)))

\* line 257: if (!imageUrl)
CannotExportNever(url) == FALSE
CannotExport(url) == url = Null

\* lines 256-297: the loop over Object.entries(imageUrls), from entry k on,
\* nt tasks having been added
RECURSIVE EnqueueFrom(_, _, _)
EnqueueFrom(S, k, nt) ==
  IF k > Len(S.gi.allImages) THEN S
  ELSE LET e == S.gi.allImages[k] IN
       IF CannotExport(e.url)
       THEN EnqueueFrom(
              [S EXCEPT !.dl.results =
                 Append(@, [task |-> 0,
                            outcome |-> Outcome(e.key, FALSE, Err("Cannot export", 0), <<>>)])],
              k + 1, nt)
       ELSE EnqueueFrom(
              AddTask([S EXCEPT !.task[nt + 1].kind = "download",
                                !.task[nt + 1].nodeId = e.key,
                                !.task[nt + 1].imageUrl = e.url,
                                !.dl.results = Append(@, [task |-> nt + 1, outcome |-> Pending])],
                      nt + 1),
              k + 1, nt + 1)

\* lines 254-300
AfterGetImageUrls(S) == PromiseAll(EnqueueFrom([S EXCEPT !.dl.pc = "awaiting"], 1, 0))

----------------------------------------------------------------------------
(* FigmaDownloader.getImageUrls (lines 182-241). *)

\* getImageUrls returns allImages (line 240); downloadImages, when it is the
\* caller, goes on (line 252)
GiReturn(S) ==
  LET S1 == [S EXCEPT !.gi.pc = "returned"]
  IN  IF S.dl.pc = "resolving" THEN AfterGetImageUrls(S1) ELSE S1

GiThrowSwallowed(S, err) ==
  LET S1 == [S EXCEPT !.gi.pc = "threw", !.gi.error = err]
  IN  IF S.dl.pc = "resolving" THEN AfterGetImageUrls(S1) ELSE S1
\* getImageUrls rejects (lines 221, 227, or an exception of line 214 or
\* 224); the rejection rejects downloadImages, when it is the caller
\* (line 252)
GiThrow(S, err) ==
  LET S1 == [S EXCEPT !.gi.pc = "threw", !.gi.error = err]
  IN  IF S.dl.pc = "resolving"
      THEN [S1 EXCEPT !.dl.pc = "threw", !.dl.error = err]
      ELSE S1

\* lines 203-210: the query of a batch
Query(ids, fmt) ==
  [ids |-> ids, format |-> fmt, scale |-> IF fmt = "png" THEN DEFAULT_SCALE ELSE 0]

\* lines 196-218: the call for batch i
GiCall(S, i) ==
  FetchWithRetry(
    [S EXCEPT !.gi.pc = "fetch", !.gi.i = i, !.gi.delay = 0,
              !.resolveLog = Append(@, [query |-> Query(Batch(FormattedIds(nodeIds), i), format),
                                        merged |-> S.gi.merged])],
    Resolver)

\* lines 182-196
GetImageUrls(S) ==
  IF NumBatches(nodeIds) = 0
  THEN GiReturn([S EXCEPT !.gi = NewGi])
  ELSE GiCall([S EXCEPT !.gi = NewGi], 1)

\* lines 220-224
GiAfterFetch(S, status) ==
  IF ~Ok(status)
  THEN GiThrow(S, Err("Figma API error", status))
  ELSE [S EXCEPT !.gi.pc = "json"]

\* line 233: is there a next batch
MoreBatches(i) == i < NumBatches(nodeIds)

\* lines 226-240: after response.json()
GiAfterJson(S, data) ==
  IF data.err
  THEN GiThrow(S, Err("Figma API error: err", 0))
  ELSE LET S1 == [S EXCEPT !.gi.allImages = Spread(@, data.images),
                           !.gi.merged = @ + 1]
       IN  IF MoreBatches(S.gi.i)
           THEN [S1 EXCEPT !.gi.pc = "sleep", !.gi.delay = REQUEST_INTERVAL * 2]
           ELSE GiReturn(S1)

\* lines 243-252
DownloadImages(S) == GetImageUrls([S EXCEPT !.dl = [NewDl EXCEPT !.pc = "resolving"]])

----------------------------------------------------------------------------
(* fetchWithRetry (lines 139-177), from the response on. *)

\* return response (line 175), to the caller's continuation
FetchReturned(S, c, status) ==
  LET S1 == [S EXCEPT !.call[c].pc = "none", !.call[c].outcome = "returned",
                      !.call[c].returned = status,
                      !.call[c].wait = NoWait, !.call[c].prevWait = NoWait]
  IN  IF c = Resolver THEN GiAfterFetch(S1, status)
      ELSE IF S.task[c].kind = "download" THEN TaskAfterFetch(S1, c, status)
      ELSE S1

\* an exception leaves fetchWithRetry (line 145, or fetch rejecting at line 139)
FetchThrew(S, c, err) ==
  LET S1 == [S EXCEPT !.call[c].pc = "none", !.call[c].outcome = "threw",
                      !.call[c].error = err,
                      !.call[c].wait = NoWait, !.call[c].prevWait = NoWait]
  IN  IF c = Resolver THEN GiThrow(S1, err)
      ELSE IF S.task[c].kind = "download" THEN TaskCatch(S1, c, err)
      ELSE S1

\* the loop ends without a return (line 177): the caller reads .ok of undefined
FetchFellThrough(S, c) ==
  LET S1 == [S EXCEPT !.call[c].pc = "none", !.call[c].outcome = "undefined",
                      !.call[c].wait = NoWait, !.call[c].prevWait = NoWait]
  IN  IF c = Resolver THEN GiThrow(S1, Err("TypeError", 0))
      ELSE IF S.task[c].kind = "download" THEN TaskCatch(S1, c, Err("TypeError", 0))
      ELSE S1

OnNetworkFailureRetried(S, c) ==
  [S EXCEPT !.call[c].pc = "backoff", !.call[c].delay = INITIAL_DELAY]
\* line 139: fetch rejects, and nothing in fetchWithRetry catches it
OnNetworkFailure(S, c) == FetchThrew(S, c, Err("fetch failed", 0))

\* line 144: was this the last attempt
LastAttemptNever(attempt) == attempt > retries + 1
LastAttemptOffByOne(attempt) == attempt = retries - 1
LastAttempt(attempt) == attempt = retries

\* lines 141-164: a 429 response
OnThrottled(S, c, retryAfter, jitter) ==
  LET S1 == [S EXCEPT !.retryCount = @ + 1, !.served429 = @ + 1,
                      !.call[c].throttled = @ + 1, !.call[c].status = HTTP_TOO_MANY]
  IN  IF LastAttempt(S.call[c].attempt)
      THEN FetchThrew(S1, c, Err("Rate limit exceeded", retries))
      ELSE LET delay == BackoffDelay(S.call[c].attempt, retryAfter, jitter)
           IN  [S1 EXCEPT !.call[c].pc = "backoff",
                          !.call[c].delay = delay,
                          !.call[c].prevWait = S.call[c].wait,
                          !.call[c].wait = [delay |-> delay, retryAfter |-> retryAfter]]

OnResponseResets(S, c, status) ==
  FetchReturned([S EXCEPT !.retryCount = 0, !.call[c].status = status], c, status)
\* lines 167-175: any other response
OnResponse(S, c, status) ==
  FetchReturned([S EXCEPT !.retryCount = IF @ > 0 THEN Max(0, @ - 1) ELSE @,
                          !.call[c].status = status],
                c, status)

\* lines 164 and 131: continue, attempt++ and the loop test
NextAttempt(S, c) ==
  LET S1 == [S EXCEPT !.call[c].attempt = @ + 1, !.call[c].delay = 0]
  IN  IF LoopGoesOn(S1.call[c].attempt) THEN LoopBody(S1, c) ELSE FetchFellThrough(S1, c)

----------------------------------------------------------------------------
(* The environment: the client's arguments, and what the servers answer. *)

Digits == <<"1", "2", "3", "4", "5", "6", "7", "8", "9">>
NodeName(k, sep) == <<"7", sep, Digits[k]>>
\* the i-th identifier of a request that cycles through k nodes, written
\* with hyphens in the odd rounds and with colons in the even ones
RawIdAt(i, k) == NodeName(((i - 1) % k) + 1, IF ((i - 1) \div k) % 2 = 0 THEN "-" ELSE ":")
NodeIdLists == {[i \in 1..n |-> RawIdAt(i, k)] : n \in 0..MaxIds, k \in 1..MaxNodes}
ResolveLists == {[i \in 1..n |-> RawIdAt(i, k)] : n \in 0..MaxResolveIds, k \in 1..MaxNodes}
Formats == {"png", "svg"}
\* every identifier of at most MaxIdLen characters
IdChars == {"3", "-", ":"}
IdStrings == UNION {[1..n -> IdChars] : n \in 0..MaxIdLen}

\* the statuses other than 429 a server answers with
Statuses == {200, 500}
\* a retry-after header: none (0) or a number of seconds
RetryAfters == {0, RetryAfterSecs}
\* Math.random() * 1000, at its ends
Jitters == {0, JITTER_RANGE - 1}

RECURSIVE Distinct(_)
Distinct(s) ==
  IF s = <<>> THEN <<>>
  ELSE LET r == Distinct(SubSeq(s, 1, Len(s) - 1))
           l == s[Len(s)]
       IN  IF \E i \in 1..Len(r) : r[i] = l THEN r ELSE Append(r, l)

\* a node the client never asks for
ExtraId == <<"9", ":", "9">>

\* The `images` objects the vendor may answer batch i with: every requested
\* node mapped to a signed url or to null, or left out; or every requested
\* node mapped to a url, and with them a node that was not requested.
VendorImages(batch, i) ==
  LET D == Distinct(batch)
      Kept(f) == SelectSeq([k \in 1..Len(D) |-> k], LAMBDA k : f[k] # "omit")
      Images(f) == [j \in 1..Len(Kept(f)) |->
                      LET k == Kept(f)[j] IN
                      [key |-> D[k], url |-> IF f[k] = "url" THEN Url(D[k], i) ELSE Null]]
  IN  {Images(f) : f \in [1..Len(D) -> {"url", "null", "omit"}]}
        \cup {Append(Images([k \in 1..Len(D) |-> "url"]),
                     [key |-> ExtraId, url |-> Url(ExtraId, i)])}

\* the bodies response.json() may give: an `err`, or `images`
Bodies(batch, i) ==
  {[err |-> TRUE, images |-> <<>>]}
    \cup {[err |-> FALSE, images |-> m] : m \in VendorImages(batch, i)}

----------------------------------------------------------------------------
(* The state after construction (lines 24-28, 57-64, 103-109). *)

InitHarness ==
  /\ lpc = [c \in Callers |-> "idle"]
  /\ lwake = [c \in Callers |-> NoTime]
  /\ lblocked = [c \in Callers |-> NoTime]
  /\ lrounds = [c \in Callers |-> 0]
  /\ grants = <<>>

InitObjects ==
  /\ now = StartTime
  /\ requests = <<>>
  /\ running = 0
  /\ queue = <<>>
  /\ lastRequestTime = 0
  /\ task = [t \in Tasks |-> NewTask]
  /\ retryCount = 0
  /\ call = [c \in FetchCallers |-> NewCall]
  /\ gi = NewGi
  /\ dl = NewDl
  /\ files = {}
  /\ acquired = [c \in FetchCallers |-> 0]
  /\ served429 = 0
  /\ resolveLog = <<>>
  /\ InitHarness

NoInput ==
  /\ nodeIds = <<>>
  /\ format = "png"

----------------------------------------------------------------------------
(* Actions shared by the specifications. *)

Step(S) == Commit(S) /\ UNCHANGED <<now, inputVars, harnessVars>>

\* the timer of line 40 fires: acquire() is run again (line 41)
QuotaWake(t) ==
  /\ task[t].pc = "quota"
  /\ now >= task[t].wakeAt
  /\ Step(AcquireFor(St, t))

\* the timer of line 87 fires
IntervalWake(t) ==
  /\ task[t].pc = "interval"
  /\ now >= task[t].wakeAt
  /\ Step(StartTask(St, t))

ClockTick(horizon) == Tick(horizon) /\ UNCHANGED <<objectVars, inputVars, harnessVars>>

----------------------------------------------------------------------------
(* Spec: one call of downloadImages on a new FigmaDownloader. *)

CallDownloadImages ==
  /\ dl.pc = "idle"
  /\ Step(DownloadImages(St))

\* the timer of line 136 fires
ProactiveWake(c) ==
  /\ call[c].pc = "proactive"
  /\ Step(IssueFetch(St, c))

\* the server answers 429; the jitter changes only the length of a sleep
\* that is not timed here, and is taken at its lower end (FThrottled takes
\* both ends)
Throttled(c) ==
  /\ call[c].pc = "http"
  /\ served429 < Max429
  /\ \E ra \in RetryAfters : Step(OnThrottled(St, c, ra, 0))

\* the server answers with another status
Responded(c) ==
  /\ call[c].pc = "http"
  /\ \E status \in Statuses : Step(OnResponse(St, c, status))

\* fetch rejects
NetworkFailure(c) ==
  /\ call[c].pc = "http"
  /\ Step(OnNetworkFailure(St, c))

\* the timer of line 163 fires
BackoffWake(c) ==
  /\ call[c].pc = "backoff"
  /\ Step(NextAttempt(St, c))

\* response.json() resolves (line 224)
JsonParsed ==
  /\ gi.pc = "json"
  /\ \E data \in Bodies(Batch(FormattedIds(nodeIds), gi.i), gi.i) : Step(GiAfterJson(St, data))

\* response.json() rejects
JsonFailure ==
  /\ gi.pc = "json"
  /\ Step(GiThrow(St, Err("SyntaxError", 0)))

\* the timer of line 236 fires
BatchWake ==
  /\ gi.pc = "sleep"
  /\ Step(GiCall(St, gi.i + 1))

\* the pipeline of line 278 resolves
PipelineDone(t) ==
  /\ task[t].pc = "pipeline"
  /\ Step(TaskAfterPipeline(St, t))

\* the pipeline of line 278 rejects
PipelineFailure(t) ==
  /\ task[t].pc = "pipeline"
  /\ Step(TaskCatch(St, t, Err("write failed", 0)))

\* Until the first task is admitted nothing reads the clock, and every
\* later reading is compared with readings taken after it: the clock is
\* let run from then on.
DownloadTick ==
  /\ dl.pc = "awaiting"
  /\ ClockTick(DownloadHorizon)

Init ==
  /\ InitObjects
  /\ nodeIds \in NodeIdLists
  /\ format \in Formats

Next ==
  \/ CallDownloadImages
  \/ \E c \in FetchCallers : ProactiveWake(c)
  \/ \E c \in FetchCallers : Throttled(c)
  \/ \E c \in FetchCallers : Responded(c)
  \/ \E c \in FetchCallers : NetworkFailure(c)
  \/ \E c \in FetchCallers : BackoffWake(c)
  \/ JsonParsed
  \/ JsonFailure
  \/ BatchWake
  \/ \E t \in Tasks : QuotaWake(t)
  \/ \E t \in Tasks : IntervalWake(t)
  \/ \E t \in Tasks : PipelineDone(t)
  \/ \E t \in Tasks : PipelineFailure(t)
  \/ DownloadTick

Spec == Init /\ [][Next]_vars

----------------------------------------------------------------------------
(* SpecResolve: one call of getImageUrls on a new FigmaDownloader. *)

CallGetImageUrls ==
  /\ gi.pc = "idle"
  /\ dl.pc = "idle"
  /\ Step(GetImageUrls(St))

InitResolve ==
  /\ InitObjects
  /\ nodeIds \in ResolveLists
  /\ format \in Formats

NextResolve ==
  \/ CallGetImageUrls
  \/ ProactiveWake(Resolver)
  \/ Throttled(Resolver)
  \/ Responded(Resolver)
  \/ NetworkFailure(Resolver)
  \/ BackoffWake(Resolver)
  \/ JsonParsed
  \/ JsonFailure
  \/ BatchWake

SpecResolve == InitResolve /\ [][NextResolve]_vars

----------------------------------------------------------------------------
(* SpecNames: one call of downloadImages for one identifier, any string of *)
(* at most MaxIdLen characters, with servers that neither throttle nor     *)
(* fail.                                                                   *)

InitNames ==
  /\ InitObjects
  /\ nodeIds \in {<<id>> : id \in IdStrings}
  /\ format \in Formats

NextNames ==
  \/ CallDownloadImages
  \/ \E c \in FetchCallers : Responded(c)
  \/ JsonParsed
  \/ \E t \in Tasks : IntervalWake(t)
  \/ \E t \in Tasks : PipelineDone(t)
  \/ DownloadTick

SpecNames == InitNames /\ [][NextNames]_vars

----------------------------------------------------------------------------
(* SpecFetch: NumFetchers clients of one FigmaDownloader, each calling     *)
(* fetchWithRetry once, at any time.                                       *)

Fetchers == 1..NumFetchers

FCall(c) ==
  /\ call[c].pc = "none"
  /\ call[c].outcome = "none"
  /\ Step(FetchWithRetry(St, c))

FThrottled(c) ==
  /\ call[c].pc = "http"
  /\ served429 < MaxThrottles
  /\ \E ra \in RetryAfters, j \in Jitters : Step(OnThrottled(St, c, ra, j))

InitFetch == InitObjects /\ NoInput

NextFetch ==
  \/ \E c \in Fetchers : FCall(c)
  \/ \E c \in Fetchers : ProactiveWake(c)
  \/ \E c \in Fetchers : FThrottled(c)
  \/ \E c \in Fetchers : Responded(c)
  \/ \E c \in Fetchers : NetworkFailure(c)
  \/ \E c \in Fetchers : BackoffWake(c)

SpecFetch == InitFetch /\ [][NextFetch]_vars

----------------------------------------------------------------------------
(* SpecQueue: a RequestQueue whose client calls add() at any time with     *)
(* task functions that take any time and then return or throw.             *)

Add(t) ==
  /\ task[t].pc = "new"
  /\ \A u \in Tasks : u < t => task[u].pc # "new"
  /\ Step(AddTask(St, t))

FnReturn(t) ==
  /\ task[t].pc = "fn"
  /\ Step(SettleTask(St, t, "resolved", Outcome(<<>>, TRUE, NoError, <<>>)))

FnThrow(t) ==
  /\ task[t].pc = "fn"
  /\ Step(SettleTask(St, t, "rejected", Outcome(<<>>, FALSE, Err("thrown", 0), <<>>)))

InitQueueSpec == InitObjects /\ NoInput

NextQueue ==
  \/ \E t \in Tasks : Add(t)
  \/ \E t \in Tasks : QuotaWake(t)
  \/ \E t \in Tasks : IntervalWake(t)
  \/ \E t \in Tasks : FnReturn(t)
  \/ \E t \in Tasks : FnThrow(t)
  \/ ClockTick(Horizon)

SpecQueue == InitQueueSpec /\ [][NextQueue]_vars

\* SpecQueueFair: every task function terminates, and a timer that is due
\* fires (the event loop runs the callback of setTimeout, line 20)
SpecQueueFair ==
  /\ SpecQueue
  /\ \A t \in Tasks : WF_vars(FnReturn(t) \/ FnThrow(t))
  /\ \A t \in Tasks : WF_vars(QuotaWake(t))
  /\ \A t \in Tasks : WF_vars(IntervalWake(t))
  /\ WF_vars(ClockTick(Horizon))

----------------------------------------------------------------------------
(* SpecLimiter: NumCallers concurrent callers of one RateLimiter. *)

\* a caller calls acquire(): lines 30-45 up to the first await or the return
LCall(c) ==
  /\ lpc[c] = "idle"
  /\ Len(grants) < MaxAcquires
  /\ LET a == AcquireStep(requests, now) IN
       /\ requests' = a.requests
       /\ IF a.granted
          THEN /\ grants' = Append(grants, [at |-> now, oldest |-> NoTime, rounds |-> 0])
               /\ UNCHANGED <<lpc, lwake, lblocked, lrounds>>
          ELSE /\ lpc' = [lpc EXCEPT ![c] = "sleeping"]
               /\ lwake' = [lwake EXCEPT ![c] = a.wakeAt]
               /\ lblocked' = [lblocked EXCEPT ![c] = a.oldest]
               /\ lrounds' = [lrounds EXCEPT ![c] = 1]
               /\ UNCHANGED grants
  /\ UNCHANGED <<now, inputVars, running, queue, lastRequestTime, task, retryCount, call,
                 gi, dl, files, acquired, served429, resolveLog>>

\* the timer of line 40 fires and line 41 runs acquire() again
LWake(c) ==
  /\ lpc[c] = "sleeping"
  /\ now >= lwake[c]
  /\ LET a == AcquireStep(requests, now) IN
       /\ requests' = a.requests
       /\ IF a.granted
          THEN /\ grants' = Append(grants, [at |-> now, oldest |-> lblocked[c],
                                            rounds |-> lrounds[c]])
               /\ lpc' = [lpc EXCEPT ![c] = "idle"]
               /\ lwake' = [lwake EXCEPT ![c] = NoTime]
               /\ lblocked' = [lblocked EXCEPT ![c] = NoTime]
               /\ lrounds' = [lrounds EXCEPT ![c] = 0]
          ELSE /\ lwake' = [lwake EXCEPT ![c] = a.wakeAt]
               /\ lblocked' = [lblocked EXCEPT ![c] = a.oldest]
               /\ lrounds' = [lrounds EXCEPT ![c] = @ + 1]
               /\ UNCHANGED <<lpc, grants>>
  /\ UNCHANGED <<now, inputVars, running, queue, lastRequestTime, task, retryCount, call,
                 gi, dl, files, acquired, served429, resolveLog>>

InitLimiter == InitObjects /\ NoInput

NextLimiter ==
  \/ \E c \in Callers : LCall(c)
  \/ \E c \in Callers : LWake(c)
  \/ ClockTick(Horizon)

SpecLimiter == InitLimiter /\ [][NextLimiter]_vars

\* SpecLimiterFair: time advances, and a timer that is due fires (the event
\* loop runs the callback of setTimeout, line 20, and acquire() goes on at
\* line 41)
SpecLimiterFair ==
  /\ SpecLimiter
  /\ \A c \in Callers : WF_vars(LWake(c))
  /\ WF_vars(ClockTick(Horizon))

----------------------------------------------------------------------------
(* The properties checked. *)

OutcomeIds == {dl.finalResults[k].nodeId : k \in 1..Len(dl.finalResults)}
RequestedIds == {FormatId(nodeIds[i]) : i \in 1..Len(nodeIds)}

\* C1: when downloadImages returns, the nodeIds of the outcomes are the
\* canonicalized identifiers that were requested, none missing and none
\* extra, and no identifier has two outcomes.
C1_OneOutcomePerIdentifier ==
  dl.pc = "returned" =>
    /\ OutcomeIds = RequestedIds
    /\ Cardinality(OutcomeIds) = Len(dl.finalResults)

----------------------------------------------------------------------------
Dequeued == {t \in Tasks : task[t].pc \in {"quota", "interval", "fn", "pipeline"}}

\* C2: the number of tasks dequeued and not yet settled, which is what
\* `running` counts, never exceeds `concurrency` and never drops below 0.
C2_RunningBounded ==
  /\ running = Cardinality(Dequeued)
  /\ running >= 0
  /\ running <= concurrency

\* `concurrency` tasks are running while another waits in the queue, after
\* an earlier task has settled
C2_Witness ==
  /\ running = concurrency
  /\ queue # <<>>
  /\ \E t \in Tasks : Settled(task[t])

----------------------------------------------------------------------------
GrantsInWindow(t) == {i \in 1..Len(grants) : grants[i].at <= t /\ t - grants[i].at < windowMs}

\* C3: the retained-timestamp count never exceeds maxRequests; at most
\* maxRequests acquire() calls return within any trailing windowMs window;
\* and a call that found the quota exhausted returns only when the oldest
\* timestamp it found has left the window.
C3_QuotaRespected ==
  /\ Len(requests) <= maxRequests
  /\ \A i \in 1..Len(grants) : Cardinality(GrantsInWindow(grants[i].at)) <= maxRequests
  /\ \A i \in 1..Len(grants) :
       grants[i].oldest # NoTime => grants[i].at - grants[i].oldest >= windowMs

\* two callers that found the quota exhausted have woken at the same
\* instant and both returned, filling the quota again
C3_Witness ==
  /\ Len(requests) = maxRequests
  /\ \E i, j \in 1..Len(grants) :
       /\ i # j
       /\ grants[i].oldest # NoTime
       /\ grants[j].oldest # NoTime
       /\ grants[j].at = grants[i].at

----------------------------------------------------------------------------
\* C4: every HTTP request a caller of fetchWithRetry has issued, the batch
\* requests of getImageUrls and every attempt of a byte-fetch, was preceded
\* by an acquire() of its own that returned.
C4_EveryRequestAcquired ==
  \A c \in FetchCallers : call[c].requests <= acquired[c]

----------------------------------------------------------------------------
Finished(c) == call[c].pc = "none" /\ call[c].outcome # "none"

\* C5: a call that the server answers with k <= retries 429s and then with
\* another status has issued k + 1 requests and returns that last response;
\* short of a network failure, a call that has received at most `retries`
\* 429s ends in no other way.
C5_ReturnsAfterThrottles ==
  \A c \in Fetchers :
    /\ call[c].outcome = "returned" =>
         /\ call[c].throttled <= retries
         /\ call[c].requests = call[c].throttled + 1
         /\ call[c].attempt = call[c].throttled
         /\ call[c].status # 429
         /\ call[c].returned = call[c].status
    /\ (Finished(c) /\ call[c].status \notin {0, 429}) => call[c].outcome = "returned"
    /\ (Finished(c) /\ call[c].throttled <= retries /\ call[c].error # Err("fetch failed", 0)) =>
         call[c].outcome = "returned"

\* one call has returned a 200 after 429, 429, 200, and another has
\* returned after `retries` 429s
C5_Witness ==
  \E c, d \in Fetchers :
    /\ call[c].outcome = "returned"
    /\ call[c].throttled = 2
    /\ call[c].requests = 3
    /\ call[c].returned = 200
    /\ call[d].outcome = "returned"
    /\ call[d].throttled = retries
    /\ call[d].requests = retries + 1

----------------------------------------------------------------------------
RateLimitExceeded == Err("Rate limit exceeded", retries)

\* C6: no call issues more than retries + 1 requests or makes more than
\* `retries` retries; a call answered 429 every time ends at the
\* (retries + 1)-th 429, without a sleep, by throwing the rate-limit error,
\* and that error is thrown in no other case.
C6_CeilingThenRateLimitError ==
  \A c \in Fetchers :
    /\ call[c].requests <= retries + 1
    /\ call[c].attempt <= retries
    /\ call[c].pc = "backoff" => call[c].throttled <= retries
    /\ call[c].throttled = retries + 1 =>
         /\ call[c].pc = "none"
         /\ call[c].delay = 0
         /\ call[c].requests = retries + 1
         /\ call[c].outcome = "threw"
         /\ call[c].error = RateLimitExceeded
    /\ call[c].error = RateLimitExceeded =>
         /\ call[c].outcome = "threw"
         /\ call[c].throttled = retries + 1

\* a call has been answered 429 six times
C6_Witness ==
  \E c \in Fetchers :
    /\ call[c].throttled = retries + 1
    /\ call[c].requests = 6
    /\ call[c].outcome = "threw"

----------------------------------------------------------------------------
\* the least m with 5 * m >= n
CeilFifth(n) == CHOOSE m \in 0..n : 5 * m >= n /\ \A k \in 0..n : 5 * k >= n => m <= k
\* the i-th run of five canonicalized identifiers of the input, the last
\* one shorter when the input ends
Slice(i) ==
  LET size == Min(5, Len(nodeIds) - 5 * (i - 1))
  IN  [j \in 1..size |-> FormatId(nodeIds[5 * (i - 1) + j])]

\* C7: getImageUrls makes ceil(n/5) resolution calls when no batch fails;
\* the i-th asks for the i-th run of five canonicalized identifiers; it is
\* made when the i - 1 earlier responses have been merged, no request is
\* outstanding while a response is parsed or merged, and a batch that is
\* not throttled takes one HTTP request.
C7_BatchesSequential ==
  /\ Len(resolveLog) <= CeilFifth(Len(nodeIds))
  /\ \A i \in 1..Len(resolveLog) :
       /\ resolveLog[i].query.ids = Slice(i)
       /\ resolveLog[i].merged = i - 1
  /\ gi.pc = "returned" =>
       /\ Len(resolveLog) = CeilFifth(Len(nodeIds))
       /\ gi.merged = CeilFifth(Len(nodeIds))
  /\ call[Resolver].pc # "none" =>
       /\ gi.pc = "fetch"
       /\ gi.merged = Len(resolveLog) - 1
  /\ gi.pc \in {"json", "sleep"} =>
       /\ gi.merged = Len(resolveLog) - (IF gi.pc = "json" THEN 1 ELSE 0)
       /\ call[Resolver].requests = call[Resolver].throttled + 1

\* twelve identifiers have been resolved by three calls, for 5, 5 and 2
\* identifiers, none of them throttled
C7_Witness ==
  /\ gi.pc = "returned"
  /\ Len(nodeIds) = 12
  /\ served429 = 0
  /\ Len(resolveLog) = 3
  /\ Len(resolveLog[1].query.ids) = 5
  /\ Len(resolveLog[2].query.ids) = 5
  /\ Len(resolveLog[3].query.ids) = 2

----------------------------------------------------------------------------
NonNull == {k \in 1..Len(gi.allImages) : gi.allImages[k].url # Null}
Enqueued == {t \in Tasks : task[t].pc # "new"}

\* C8: an identifier resolved to null gets the outcome "Cannot export", no
\* task and no byte-fetch; every other resolved identifier gets one task;
\* and when no byte-fetch is throttled, the byte-fetch requests made by the
\* time downloadImages returns are as many as the non-null URLs.
C8_NullUrlCannotExport ==
  dl.pc \in {"awaiting", "returned"} =>
    /\ Len(dl.results) = Len(gi.allImages)
    /\ \A k \in 1..Len(gi.allImages) :
         LET e == gi.allImages[k]
             r == dl.results[k]
         IN  IF e.url = Null
             THEN /\ r.task = 0
                  /\ r.outcome = Outcome(e.key, FALSE, Err("Cannot export", 0), <<>>)
                  /\ \A t \in Enqueued : task[t].nodeId # e.key
                  /\ dl.pc = "returned" => dl.finalResults[k] = r.outcome
             ELSE /\ r.task \in Enqueued
                  /\ task[r.task].nodeId = e.key
                  /\ task[r.task].imageUrl = e.url
    /\ Cardinality(Enqueued) = Cardinality(NonNull)
    /\ \A t \in Tasks \ Enqueued : call[t].requests = 0
    /\ (dl.pc = "returned" /\ \A t \in Tasks : call[t].throttled = 0) =>
         /\ \A t \in Tasks : call[t].requests <= 1
         /\ Cardinality({t \in Tasks : call[t].requests = 1}) = Cardinality(NonNull)

\* of two identifiers one resolved to a URL and one to null: the list
\* returned holds a success and a "Cannot export", and one byte-fetch request
\* was made
C8_Witness ==
  /\ dl.pc = "returned"
  /\ Len(gi.allImages) = 2
  /\ gi.allImages[1].url # Null
  /\ gi.allImages[2].url = Null
  /\ dl.finalResults[1].success
  /\ dl.finalResults[1].fileName = FileName(gi.allImages[1].key, format)
  /\ dl.finalResults[2] = Outcome(gi.allImages[2].key, FALSE, Err("Cannot export", 0), <<>>)
  /\ Cardinality({t \in Tasks : call[t].requests = 1}) = 1
  /\ \A t \in Tasks : call[t].requests <= 1

----------------------------------------------------------------------------
\* what a task may resolve with, given what its own fetch and pipeline did
OwnOutcomes(t) ==
  LET id == task[t].nodeId IN
  IF call[t].outcome = "threw" THEN {Outcome(id, FALSE, call[t].error, <<>>)}
  ELSE IF call[t].outcome = "returned" /\ call[t].returned \in 200..299
  THEN {Outcome(id, TRUE, NoError, FileName(id, format)),
        Outcome(id, FALSE, Err("write failed", 0), <<>>)}
  ELSE IF call[t].outcome = "returned"
  THEN {Outcome(id, FALSE, Err("HTTP", call[t].returned), <<>>)}
  ELSE {}

\* C9: a byte-fetch that returns a status outside 200..299 gives its
\* identifier the outcome {success: false, error: "HTTP <status>"} and no
\* file; no task rejects, and every task resolves with an outcome that its
\* own identifier, fetch and file write determine, which is the one
\* downloadImages returns for it.
C9_HttpErrorOutcome ==
  /\ \A t \in Tasks :
       task[t].kind = "download" =>
         /\ task[t].pc # "rejected"
         /\ (call[t].outcome = "returned" /\ call[t].returned \notin 200..299) =>
              /\ task[t].pc = "resolved"
              /\ task[t].result = Outcome(task[t].nodeId, FALSE, Err("HTTP", call[t].returned), <<>>)
              /\ FileName(task[t].nodeId, format) \notin files
         /\ task[t].pc = "resolved" => task[t].result \in OwnOutcomes(t)
  /\ dl.pc = "returned" =>
       \A k \in 1..Len(dl.results) :
         dl.results[k].task # 0 => dl.finalResults[k] = task[dl.results[k].task].result

\* two byte-fetches: one answered 500, its outcome "HTTP 500" and no file;
\* the other answered 200, its file written
C9_Witness ==
  /\ dl.pc = "returned"
  /\ \E t, u \in Tasks :
       /\ call[t].returned = 500
       /\ task[t].result = Outcome(task[t].nodeId, FALSE, Err("HTTP", 500), <<>>)
       /\ FileName(task[t].nodeId, format) \notin files
       /\ call[u].returned = 200
       /\ task[u].result.success
       /\ task[u].result.fileName \in files

----------------------------------------------------------------------------
\* C10: when the resolution of a batch fails, by a status outside 200..299,
\* an `err` field, a failure of the network or of the parsing, or the retry
\* ceiling, getImageUrls rejects and downloadImages with it, with the same
\* error: no later batch has been requested, no task added, no byte-fetch
\* made, no file written and no outcome recorded.
C10_ResolutionFailureAborts ==
  /\ (call[Resolver].outcome = "returned" /\ call[Resolver].returned \notin 200..299) =>
       gi.pc = "threw"
  /\ call[Resolver].outcome = "threw" =>
       /\ gi.pc = "threw"
       /\ gi.error = call[Resolver].error
  /\ gi.pc = "threw" =>
       /\ gi.error # NoError
       /\ dl.pc # "idle" => (dl.pc = "threw" /\ dl.error = gi.error)
       /\ call[Resolver].pc = "none"
       /\ Len(resolveLog) = gi.i
       /\ \A t \in Tasks : task[t].pc = "new" /\ call[t].requests = 0
       /\ queue = <<>>
       /\ running = 0
       /\ files = {}
       /\ dl.results = <<>>
       /\ dl.finalResults = <<>>

\* the second batch failed with the vendor's `err` after the first had
\* resolved a URL
C10_Witness ==
  /\ dl.pc = "threw"
  /\ gi.pc = "threw"
  /\ gi.error = Err("Figma API error: err", 0)
  /\ gi.i = 2
  /\ gi.merged = 1
  /\ \E k \in 1..Len(gi.allImages) : gi.allImages[k].url # Null

----------------------------------------------------------------------------
\* C11: once getImageUrls has returned, downloadImages does not reject,
\* whatever fails in a download task; and when it has returned, every task
\* it added has settled: none is queued or running, and no fetch or timer
\* of a task is outstanding.
C11_ReturnsAfterAllSettled ==
  /\ gi.pc = "returned" => dl.pc \in {"idle", "awaiting", "returned"}
  /\ dl.pc = "returned" =>
       /\ \A t \in Enqueued : Settled(task[t]) /\ call[t].pc = "none"
       /\ queue = <<>>
       /\ running = 0
       /\ Len(dl.finalResults) = Len(dl.results)
  /\ dl.pc = "awaiting" => \E t \in Enqueued : ~Settled(task[t])

\* downloadImages has returned after one task failed in the network and
\* another in the file write
C11_Witness ==
  /\ dl.pc = "returned"
  /\ \E t, u \in Enqueued :
       /\ task[t].result.error = Err("fetch failed", 0)
       /\ task[u].result.error = Err("write failed", 0)

----------------------------------------------------------------------------
\* C12: a task function is started (lines 89-91) only when at least
\* `interval` ms have passed since the previous task function was started.
C12_StartsSpaced ==
  [][\A t \in Tasks :
       (task[t].pc # "fn" /\ task'[t].pc = "fn") => now - lastRequestTime >= interval]_vars

----------------------------------------------------------------------------
\* tasks are added in the order of their numbers (Add)
Left(t) == task[t].pc \notin {"new", "queued"}
Started(t) == task[t].pc \in {"fn", "pipeline", "resolved", "rejected"}

\* C13: tasks leave the queue in the order they were added, and a task
\* function is not started while the function of a task added earlier has
\* not been started.
C13_Fifo ==
  \A t, u \in Tasks :
    t < u =>
      /\ Left(u) => Left(t)
      /\ Started(u) => Started(t)

----------------------------------------------------------------------------
\* C14: a backoff delay computed without a retry-after header before retry
\* i + 1 is 2000 * 2^i ms plus a jitter below 1000 ms, whatever retryCount
\* is, and it is greater than the delay computed without a header before
\* the retry that preceded it.
C14_BackoffGrows ==
  \A c \in Fetchers :
    /\ (call[c].wait # NoWait /\ call[c].wait.retryAfter = 0) =>
         /\ call[c].wait.delay - 2000 * Pow2(call[c].throttled - 1) \in 0..999
         /\ (call[c].prevWait # NoWait /\ call[c].prevWait.retryAfter = 0) =>
              call[c].wait.delay > call[c].prevWait.delay
    /\ call[c].pc = "backoff" =>
         /\ call[c].delay = call[c].wait.delay
         /\ call[c].attempt = call[c].throttled - 1

\* a call sleeps before its third retry, 8000 ms after having slept
\* 4999 ms, while retryCount is above the 429s of this call
C14_Witness ==
  \E c \in Fetchers :
    /\ call[c].pc = "backoff"
    /\ call[c].throttled = 3
    /\ call[c].wait = [delay |-> 8000, retryAfter |-> 0]
    /\ call[c].prevWait = [delay |-> 4999, retryAfter |-> 0]
    /\ retryCount > 3

----------------------------------------------------------------------------
\* out is s with every `from` replaced by `to`
Replaced(s, out, from, to) ==
  /\ Len(out) = Len(s)
  /\ \A i \in 1..Len(s) : out[i] = (IF s[i] = from THEN to ELSE s[i])
\* s has no `ch`
Without(s, ch) == \A i \in 1..Len(s) : s[i] # ch

\* C15: the identifier sent is the one requested with every hyphen replaced
\* by a colon; canonicalizing leaves an identifier without hyphens as it is,
\* and so leaves a canonical identifier as it is; the file created for a
\* node is named by the node's key with every colon replaced by an
\* underscore, followed by a dot and the format.
C15_Canonicalization ==
  /\ \A i \in 1..Len(nodeIds) :
       /\ Replaced(nodeIds[i], FormatId(nodeIds[i]), "-", ":")
       /\ Without(FormatId(nodeIds[i]), "-")
       /\ Without(nodeIds[i], "-") => FormatId(nodeIds[i]) = nodeIds[i]
       /\ FormatId(FormatId(nodeIds[i])) = FormatId(nodeIds[i])
  /\ \A b \in 1..Len(resolveLog) :
       \A j \in 1..Len(resolveLog[b].query.ids) :
         Replaced(nodeIds[5 * (b - 1) + j], resolveLog[b].query.ids[j], "-", ":")
  /\ \A t \in Tasks :
       task[t].pc \in {"pipeline", "resolved"} /\ task[t].result.success =>
         \E f \in files :
           /\ Len(f) = Len(task[t].nodeId) + 2
           /\ Replaced(task[t].nodeId, SubSeq(f, 1, Len(task[t].nodeId)), ":", "_")
           /\ f[Len(f) - 1] = "."
           /\ f[Len(f)] = format
           /\ task[t].result.fileName = f

\* "3-3" was requested as "3:3" and written to "3_3.png"
C15_Witness ==
  /\ dl.pc = "returned"
  /\ format = "png"
  /\ nodeIds = << <<"3", "-", "3">> >>
  /\ resolveLog[1].query.ids = << <<"3", ":", "3">> >>
  /\ <<"3", "_", "3", ".", "png">> \in files
  /\ \E k \in 1..Len(dl.finalResults) :
       dl.finalResults[k].fileName = <<"3", "_", "3", ".", "png">>

----------------------------------------------------------------------------
\* in this step a call receives a 429, or a response with another status
Got429(c) == call[c].pc = "http" /\ call'[c].throttled = call[c].throttled + 1
GotOther(c) == call[c].pc = "http" /\ call'[c].pc = "none" /\ call'[c].outcome = "returned"

\* C16: retryCount starts at 0 and is never negative; a 429 response adds 1
\* to it, on the last attempt too; another response takes 1 from it when
\* it is positive and leaves it at 0 otherwise; no other step changes it.
C16_ThrottleCounter ==
  /\ retryCount = 0
  /\ [](retryCount >= 0)
  /\ [][/\ (\E c \in FetchCallers : Got429(c)) => retryCount' = retryCount + 1
        /\ (\E c \in FetchCallers : GotOther(c)) =>
             retryCount' = (IF retryCount > 0 THEN retryCount - 1 ELSE 0)
        /\ ~(\E c \in FetchCallers : Got429(c) \/ GotOther(c)) =>
             retryCount' = retryCount]_vars

\* a call has thrown at its sixth 429, each of them counted, and one
\* response with another status has taken 1 from the count
C16_Witness ==
  /\ served429 = 6
  /\ retryCount = 5
  /\ \E c, d \in Fetchers :
       /\ call[c].throttled = 6
       /\ call[c].outcome = "threw"
       /\ call[d].outcome = "returned"

----------------------------------------------------------------------------
\* in this step a call comes to the top of its loop: it is made, or its
\* backoff sleep ends
LoopTop(c) ==
  \/ call[c].pc = "none" /\ call'[c].pc # "none"
  \/ call[c].pc = "backoff" /\ call'[c].pc # "backoff"

\* C17: a call that comes to an attempt while retryCount is c > 0 first
\* sleeps min(c * 2000, 10000) ms, and issues its request when that sleep
\* ends; with retryCount at 0 it issues the request at once; a request is
\* issued in no other way, and no proactive delay is above 10000 ms.
C17_ProactiveDelay ==
  /\ [](\A c \in Fetchers : call[c].pc = "proactive" => call[c].delay \in 1..10000)
  /\ [][\A c \in Fetchers :
          /\ LoopTop(c) =>
               IF retryCount > 0
               THEN /\ call'[c].pc = "proactive"
                    /\ call'[c].delay = (IF retryCount * 2000 < 10000
                                         THEN retryCount * 2000 ELSE 10000)
                    /\ call'[c].requests = (IF call[c].pc = "none" THEN 0 ELSE call[c].requests)
               ELSE /\ call'[c].pc = "http"
                    /\ call'[c].delay = 0
                    /\ call'[c].requests = (IF call[c].pc = "none" THEN 1 ELSE call[c].requests + 1)
          /\ (call[c].pc = "proactive" /\ call'[c] # call[c]) =>
               /\ call'[c].pc = "http"
               /\ call'[c].requests = call[c].requests + 1
          /\ (call[c].pc # "http" /\ call'[c].pc = "http") =>
               \/ call[c].pc = "proactive"
               \/ LoopTop(c) /\ retryCount = 0]_vars

\* after the six 429s of one call, a sibling that has received none sleeps
\* 10000 ms before its first request, retryCount being 6
C17_Witness ==
  \E c, d \in Fetchers :
    /\ call[c].throttled = 6
    /\ retryCount = 6
    /\ call[d].pc = "proactive"
    /\ call[d].throttled = 0
    /\ call[d].requests = 0
    /\ call[d].delay = 10000

----------------------------------------------------------------------------
\* C18: when the result of a batch is merged into the map (line 230), every
\* entry an earlier batch stored keeps its key and its value.
C18_EarlierEntriesKept ==
  [][gi'.merged = gi.merged + 1 =>
       /\ Len(gi'.allImages) >= Len(gi.allImages)
       /\ \A k \in 1..Len(gi.allImages) : gi'.allImages[k] = gi.allImages[k]]_vars

----------------------------------------------------------------------------
\* in this step the function of task t returns or throws
Completes(t) == task[t].pc = "fn" /\ Settled(task'[t])

\* C19: when a task function returns or throws, the promise of that task
\* and of no other is settled, resolved on a return and rejected on a
\* throw; the next queued task, if any, leaves the queue in the same step
\* and `running` is otherwise decremented; the queue is non-empty only
\* while `concurrency` tasks are running; and, task functions terminating,
\* every task added is settled in the end.
C19_NoTaskStranded ==
  /\ [](queue # <<>> => running = concurrency)
  /\ [][\A t \in Tasks :
          Completes(t) =>
            /\ \A u \in Tasks \ {t} :
                 /\ Settled(task'[u]) <=> Settled(task[u])
                 /\ task'[u].result = task[u].result
            /\ task'[t].pc = (IF task'[t].result.success THEN "resolved" ELSE "rejected")
            /\ IF queue # <<>>
               THEN /\ queue' = Tail(queue)
                    /\ task'[Head(queue)].pc \in {"quota", "interval", "fn"}
                    /\ running' = running
               ELSE /\ queue' = queue
                    /\ running' = running - 1]_vars
  /\ \A t \in Tasks : (task[t].pc # "new") ~> Settled(task[t])

\* every task has settled, the first by a throw, and the last, which had
\* to wait in the queue, by a return
C19_Witness ==
  /\ \A t \in Tasks : Settled(task[t])
  /\ task[1].pc = "rejected"
  /\ task[MaxTasks].pc = "resolved"
  /\ running = 0

----------------------------------------------------------------------------
NetworkError == Err("fetch failed", 0)
\* in this step the request of a call fails in the network
NetFails(c) ==
  /\ call[c].pc = "http"
  /\ call'[c].pc # "http"
  /\ call'[c].throttled = call[c].throttled
  /\ call'[c].outcome # "returned"

\* C20: a request that fails in the network ends the call with that error
\* in the same step, without a sleep or another request, and leaves
\* retryCount as it was; a response with a status other than 429, 2xx or
\* not, ends the call with that response, the request it answers being the
\* last; and a call that has ended issues nothing more.
C20_NoRetryButOn429 ==
  /\ [](\A c \in Fetchers :
          /\ call[c].error = NetworkError =>
               /\ call[c].pc = "none"
               /\ call[c].outcome = "threw"
               /\ call[c].requests = call[c].throttled + 1
          /\ (call[c].outcome = "returned" /\ call[c].returned \notin 200..299) =>
               /\ call[c].pc = "none"
               /\ call[c].returned = call[c].status
               /\ call[c].requests = call[c].throttled + 1)
  /\ [][\A c \in Fetchers :
          /\ NetFails(c) =>
               /\ call'[c].pc = "none"
               /\ call'[c].outcome = "threw"
               /\ call'[c].error = NetworkError
               /\ call'[c].requests = call[c].requests
               /\ call'[c].delay = 0
               /\ retryCount' = retryCount
          /\ Finished(c) => call'[c] = call[c]]_vars

\* one call has ended with HTTP 500 after one request, and then another
\* with the network error at its second request, after one 429, which
\* retryCount still counts
C20_Witness ==
  /\ served429 = 1
  /\ retryCount = 1
  /\ \E c, d \in Fetchers :
       /\ call[c].error = NetworkError
       /\ call[c].throttled = 1
       /\ call[c].requests = 2
       /\ call[d].returned = 500
       /\ call[d].requests = 1

----------------------------------------------------------------------------
\* the ways a call of fetchWithRetry hands control back to its caller
ExitsOfCall == {"returned", "threw"}

\* C21: with retries at its default, a completed call of fetchWithRetry has
\* returned a response or thrown an error, whatever the servers answered:
\* the loop test never fails, so no call completes with undefined.  A call
\* that returned holds the status of a response that is not a 429, and a
\* call that threw holds its error.
C21_ExitContractTotal ==
  \A c \in Fetchers :
    /\ call[c].outcome # "undefined"
    /\ LoopGoesOn(call[c].attempt)
    /\ Finished(c) => call[c].outcome \in ExitsOfCall
    /\ call[c].outcome = "returned" =>
         call[c].returned \in Statuses /\ call[c].error = NoError
    /\ call[c].outcome = "threw" => call[c].error # NoError
    /\ (call[c].pc = "none" /\ call[c].outcome = "none") => call[c].requests = 0

\* one call has ended at the last attempt the loop allows, on its
\* (retries + 1)-th 429, and the other after a 429 and a network failure
C21_Witness ==
  \E c, d \in Fetchers :
    /\ Finished(c)
    /\ call[c].attempt = retries
    /\ call[c].status = HTTP_TOO_MANY
    /\ call[c].outcome = "threw"
    /\ Finished(d)
    /\ call[d].attempt = 1
    /\ call[d].error = NetworkError

----------------------------------------------------------------------------
Sleeping(c) == lpc[c] = "sleeping"
\* the timer of a sleeping caller fired in this step
Woke(c) == Sleeping(c) /\ (lpc'[c] = "idle" \/ lrounds'[c] # lrounds[c])
\* an acquire() call recorded a timestamp and returned in this step
Recorded == Len(grants') = Len(grants) + 1
\* the retained timestamps at this reading of the clock
InWindow == SelectSeq(requests, LAMBDA ts : now - ts < windowMs)

\* C22: a caller sleeps in acquire() until the oldest timestamp it found
\* retained has left the window; when its timer fires the quota is
\* evaluated again on the list as it is then, and the caller sleeps another
\* round if the quota is still exhausted; a timestamp is recorded only
\* when fewer than maxRequests timestamps are retained at that reading; and
\* with time advancing and timers firing every sleeping caller eventually
\* records its timestamp and returns.
C22_AcquireProgress ==
  /\ [](\A c \in Callers :
          Sleeping(c) => /\ lrounds[c] >= 1
                         /\ lwake[c] - lblocked[c] >= windowMs)
  /\ [][\A c \in Callers :
          Woke(c) =>
            /\ now >= lwake[c]
            /\ now - lblocked[c] >= windowMs
            /\ \A i \in 1..Len(InWindow) : InWindow[i] # lblocked[c]
            /\ IF Len(InWindow) >= maxRequests
               THEN /\ Sleeping(c)'
                    /\ ~Recorded
                    /\ requests' = InWindow
                    /\ lblocked'[c] = InWindow[1]
                    /\ lrounds'[c] = lrounds[c] + 1
               ELSE /\ lpc'[c] = "idle"
                    /\ Recorded]_vars
  /\ [][Recorded =>
          /\ Len(InWindow) < maxRequests
          /\ requests' = Append(InWindow, now)
          /\ grants'[Len(grants')].at = now]_vars
  /\ \A c \in Callers : Sleeping(c) ~> ~Sleeping(c)

\* a call has returned after two rounds of waiting: when its first timer
\* fired the quota had been taken again by calls made in the meantime
C22_Witness ==
  \E i \in 1..Len(grants) :
    /\ grants[i].rounds = 2
    /\ grants[i].at - grants[i].oldest >= windowMs
    /\ \E j, k \in 1..(i - 1) : j # k /\ grants[j].at = grants[i].oldest
                                       /\ grants[k].at = grants[i].oldest

====
